---------------------------- MODULE Spec2Model ----------------------------
(***************************************************************************)
(* SafeMap<K, V> (src/src/safe_map.h) over KeyValue<K, V>                  *)
(* (src/src/key_value.h): a key -> record table (_data_map), a min-heap on *)
(* expire_time (_min_expire_heap) and a deque in append order (_queue),    *)
(* guarded by one mutex, with a reclaimer thread (loop_tick) and the       *)
(* destructor run by the owning thread.                                    *)
(*                                                                         *)
(* Records live in an arena (recs); the three structures hold indices into *)
(* it, which models the shared_ptr aliasing of the source.  Time is the    *)
(* value of system_clock::now() in milliseconds and only moves forward.    *)
(***************************************************************************)
EXTENDS Integers, Sequences, FiniteSets, TLC

\* ------------------------------------------------------------------ bounds
NCallers == 2        \* caller threads
MaxKey   == 2        \* keys are 1..MaxKey
MaxValue == 2        \* values are 1..MaxValue
MaxRecs  == 2        \* records ever created (size of the arena)
MaxTime  == 2        \* the clock runs 0..MaxTime
MaxN     == 2        \* n of erase_by_order / get_by_order is 0..MaxN
\* Full-sweep cadence.  The source sets 100 (safe_map.h:20); the model keeps
\* the comparison count == kCheckAllTimes of loop_tick and scales the value.
kCheckAllTimes == 1

Callers   == 1..NCallers
Keys      == 1..MaxKey
Values    == 1..MaxValue
Times     == 0..MaxTime
\* expire_time_interval arguments: -1 never expires, otherwise milliseconds
ExpireIntervals == {-1, 1}

VARIABLES
    now,               \* system_clock::now()
    recs,              \* arena of KeyValue objects, index = identity
    _data_map,         \* key -> record index
    _min_expire_heap,  \* set of record indices, top = least expire_time
    _queue,            \* sequence of record indices
    _mutex,            \* 0 = free, otherwise the thread holding it
    _is_running,       \* std::atomic<bool>
    pc,                \* caller -> position
    loc,               \* caller -> arguments, locals and return value
    rpc,               \* position of the reclaimer thread in loop_tick
    count,             \* loop_tick's local count
    opc,               \* position of the owning thread (~SafeMap)
    lin,               \* caller -> atomic answers seen since its query began
    quiet,             \* caller -> nothing has run beside its query since it began
    stop_ticks         \* tick/tick_all started since _is_running was cleared

vars == <<now, recs, _data_map, _min_expire_heap, _queue, _mutex, _is_running,
          pc, loc, rpc, count, opc, lin, quiet, stop_ticks>>

store == <<recs, _data_map, _min_expire_heap, _queue>>

\* --------------------------------------------------------------- KeyValue
\* KeyValue(key, value, expire_time_interval): insert_time is now() at
\* construction, expire_time = insert_time + interval.
KeyValue(k, v, interval, t) ==
    [key |-> k, value |-> v, insert_time |-> t, expire_time |-> t + interval,
     expire_time_interval |-> interval, is_delete |-> FALSE]

\* KeyValue::is_expire evaluated when the clock shows t
is_expire(r, t) ==
    IF r.is_delete THEN TRUE
    ELSE IF r.expire_time_interval = -1 THEN FALSE
    ELSE t > r.expire_time

\* KeyValue::delete_value applied to the records ids of arena rs
delete_value(rs, ids) ==
    [i \in DOMAIN rs |-> IF i \in ids THEN [rs[i] EXCEPT !.is_delete = TRUE] ELSE rs[i]]

NoRecord == [key |-> 0, value |-> 0, insert_time |-> 0, expire_time |-> 0,
             expire_time_interval |-> 0, is_delete |-> FALSE]

\* A caller's frame when it is not inside a call
IdleLoc == [op |-> "none", n |-> 0, asc |-> TRUE, start_time |-> 0, end_time |-> 0,
            map_value |-> NoRecord, temp_queue |-> <<>>, idx |-> 0, high |-> 0,
            count |-> 0, result |-> <<>>]

Frame(c, fields) == [f \in DOMAIN IdleLoc |-> IF f \in DOMAIN fields THEN fields[f] ELSE IdleLoc[f]]

Init ==
    /\ now = 0
    /\ recs = <<>>
    /\ _data_map = <<>>
    /\ _min_expire_heap = {}
    /\ _queue = <<>>
    /\ _mutex = 0
    /\ _is_running = TRUE
    /\ pc = [c \in Callers |-> "idle"]
    /\ loc = [c \in Callers |-> IdleLoc]
    /\ rpc = "while"
    /\ count = 0
    /\ opc = "alive"
    /\ lin = [c \in Callers |-> {}]
    /\ quiet = [c \in Callers |-> TRUE]
    /\ stop_ticks = 0


\* ------------------------------------------------------------ map helpers
MapErase(m, k) == [x \in DOMAIN m \ {k} |-> m[x]]
MapPut(m, k, v) == [x \in DOMAIN m \cup {k} |-> IF x = k THEN v ELSE m[x]]

\* --------------------------------------------------------------- get_range
\* std::upper_bound over positions first .. first+cnt-1 of q (1-based; the
\* result Len(q)+1 is end()).  comp(time, elem) is insert_time >= time for
\* the low bound (inclusive = TRUE) and insert_time > time for the high one.
RECURSIVE upper_bound(_, _, _, _, _, _)
upper_bound(q, rs, first, cnt, time, inclusive) ==
    IF cnt <= 0 THEN first
    ELSE LET step == cnt \div 2
             it   == first + step
             comp == IF inclusive THEN rs[q[it]].insert_time >= time
                                  ELSE rs[q[it]].insert_time > time
         IN IF ~comp THEN upper_bound(q, rs, it + 1, cnt - (step + 1), time, inclusive)
                     ELSE upper_bound(q, rs, first, step, time, inclusive)

\* get_range with the high bound taken as the low one is (the first record
\* at or after end_time): the range would leave out insert_time = end_time.
\* C14 rests on the comparison of line 328.
get_range_exclusive_end(q, rs, start_time, end_time) ==
    <<upper_bound(q, rs, 1, Len(q), start_time, TRUE),
      upper_bound(q, rs, 1, Len(q), end_time, TRUE)>>

\* get_range(temp_queue, start_time, end_time): the pair <<low, high>>
get_range(q, rs, start_time, end_time) ==
    <<upper_bound(q, rs, 1, Len(q), start_time, TRUE),
      upper_bound(q, rs, 1, Len(q), end_time, FALSE)>>

\* Positions of a queue of length len in the order the loop visits them
Visit(len, asc) == [i \in 1..len |-> IF asc THEN i ELSE len + 1 - i]

\* ------------------------------------------------- queries taken atomically
\* get_by_order(n, asc) evaluated in one instant on queue q at time t: the
\* loop of lines 261-273 with nothing happening in between
RECURSIVE order_answer(_, _, _, _, _, _, _)
order_answer(q, rs, order, i, n, t, result) ==
    IF i > Len(order) THEN result
    ELSE LET id == q[order[i]] IN
         IF is_expire(rs[id], t) THEN order_answer(q, rs, order, i + 1, n, t, result)
         ELSE IF Len(result) + 1 >= n THEN Append(result, id)
         ELSE order_answer(q, rs, order, i + 1, n, t, Append(result, id))

\* get_by_time_range(start, end) evaluated in one instant (lines 213-232)
range_answer(q, rs, start_time, end_time, t) ==
    IF start_time > end_time THEN <<>>
    ELSE LET pair == get_range(q, rs, start_time, end_time)
         IN SelectSeq(SubSeq(q, pair[1], pair[2] - 1), LAMBDA id : ~is_expire(rs[id], t))

\* The answer caller c's query would get if it ran atomically right now
AtomicAnswer(c) ==
    IF loc[c].op = "get_by_order"
    THEN order_answer(_queue, recs, Visit(Len(_queue), loc[c].asc), 1, loc[c].n, now, <<>>)
    ELSE range_answer(_queue, recs, loc[c].start_time, loc[c].end_time, now)

\* History kept beside the program: for a query in flight, the atomic answers
\* of every state since its invocation and whether the store and the clock
\* have stayed as they were at its invocation; and the ticks begun after the
\* stop.
History ==
    /\ lin' = [c \in Callers |->
                 IF loc'[c].op \in {"get_by_order", "get_by_time_range"}
                 THEN IF pc[c] = "return" THEN lin[c]
                      ELSE lin[c] \cup {AtomicAnswer(c)'}
                 ELSE {}]
    /\ quiet' = [c \in Callers |->
                 IF loc'[c].op \notin {"get_by_order", "get_by_time_range"} THEN TRUE
                 ELSE IF loc[c].op = "none" THEN TRUE
                 ELSE quiet[c] /\ store' = store /\ now' = now]
    /\ stop_ticks' = IF /\ rpc \in {"tick", "tick_all"}
                        /\ rpc' = "while"
                        /\ ~_is_running /\ stop_ticks < 2
                     THEN stop_ticks + 1 ELSE stop_ticks

\* A call allocates one record; the arena holds at most MaxRecs, counting the
\* records created by insert (line 66) and not yet inserted.
Allocating == {c \in Callers : pc[c] \in {"insert_lock", "insert_body"}}
CanAllocate == Len(recs) + Cardinality(Allocating) < MaxRecs

\* No call begins once the destructor has begun (the owner destroys the store
\* only after its callers are done, as main.cpp does).
CanCall(c) == pc[c] = "idle" /\ opc = "alive"

Goto(c, label) == pc' = [pc EXCEPT ![c] = label]

\* insert_without_lock with the presence test of line 286 left out: the new
\* record always replaces the key's entry. C8 rests on that test.
insert_overwrite(rs, dm, hp, q, k, mv) ==
    LET id == Len(rs) + 1 IN
    [recs |-> Append(rs, mv), data_map |-> MapPut(dm, k, id),
     heap |-> hp \cup {id}, queue |-> Append(q, id), ret |-> TRUE]

\* ----------------------------------------------- insert_without_lock etc.
\* insert_without_lock(key, map_value): the store after the call and the
\* value returned, from the store <<rs, dm, hp, q>>.
insert_without_lock(rs, dm, hp, q, k, mv) ==
    IF k \in DOMAIN dm
    THEN [recs |-> rs, data_map |-> dm, heap |-> hp, queue |-> q, ret |-> FALSE]
    ELSE LET id == Len(rs) + 1 IN
         [recs |-> Append(rs, mv), data_map |-> MapPut(dm, k, id),
          heap |-> hp \cup {id}, queue |-> Append(q, id), ret |-> TRUE]

\* erase_without_lock without the delete_value() of line 308: the key leaves
\* the map and its record stays live in _queue.  C20 rests on that line.
erase_without_tombstone(rs, dm, k) ==
    IF k \notin DOMAIN dm
    THEN [recs |-> rs, data_map |-> dm, ret |-> FALSE]
    ELSE [recs |-> rs, data_map |-> MapErase(dm, k), ret |-> TRUE]

\* erase_without_lock(key)
erase_without_lock(rs, dm, k) ==
    IF k \notin DOMAIN dm
    THEN [recs |-> rs, data_map |-> dm, ret |-> FALSE]
    ELSE [recs |-> delete_value(rs, {dm[k]}), data_map |-> MapErase(dm, k), ret |-> TRUE]

\* update_value's interval without the branch of lines 168-173 that takes the
\* old record's interval when 0 is given. C9 rests on that branch.
update_interval_as_given(old, interval) == interval

\* The interval update_value gives the new record (lines 168-176)
update_interval(old, interval) ==
    IF interval = 0
    THEN IF old.expire_time_interval = -1 THEN -1 ELSE old.expire_time_interval
    ELSE interval

\* update_value removing the old record from the queue and the heap at once
\* instead of leaving it, tombstoned, to the reclaimer.  C16 rests on the old
\* record staying where it is (lines 177-179 touch only the flag and the map).
update_value_eager(rs, dm, hp, q, k, v, interval, t) ==
    IF k \notin DOMAIN dm
    THEN [recs |-> rs, data_map |-> dm, heap |-> hp, queue |-> q, ret |-> FALSE]
    ELSE LET old == dm[k]
             mv  == KeyValue(k, v, update_interval(rs[old], interval), t)
             rs1 == delete_value(rs, {old})
             e   == erase_without_lock(rs1, dm, rs1[old].key)
             r   == insert_without_lock(e.recs, e.data_map, hp \ {old},
                                        SelectSeq(q, LAMBDA id : id # old), k, mv)
         IN [r EXCEPT !.ret = TRUE]

\* update_value under its lock, lines 162-181, on the store <<rs, dm, hp, q>> at time t
update_value_without_lock(rs, dm, hp, q, k, v, interval, t) ==
    IF k \notin DOMAIN dm
    THEN [recs |-> rs, data_map |-> dm, heap |-> hp, queue |-> q, ret |-> FALSE]
    ELSE LET old == dm[k]
             mv  == KeyValue(k, v, update_interval(rs[old], interval), t)
             rs1 == delete_value(rs, {old})
             e   == erase_without_lock(rs1, dm, rs1[old].key)
             r   == insert_without_lock(e.recs, e.data_map, hp, q, k, mv)
         IN [r EXCEPT !.ret = TRUE]

\* get_by_key under its lock, lines 193-202: the map after the call, the value written to
\* the out-parameter (0 = not written) and the value returned
get_by_key_without_lock(rs, dm, k, t) ==
    IF k \notin DOMAIN dm
    THEN [data_map |-> dm, value |-> 0, ret |-> FALSE]
    ELSE IF is_expire(rs[dm[k]], t)
         THEN [data_map |-> MapErase(dm, k), value |-> 0, ret |-> FALSE]
         ELSE [data_map |-> dm, value |-> rs[dm[k]].value, ret |-> TRUE]

\* The loop of lines 100-105 from position it up to (not including) high
RECURSIVE erase_range_loop(_, _, _, _, _, _)
erase_range_loop(rs, dm, q, it, high, cnt) ==
    IF it >= high THEN [recs |-> rs, data_map |-> dm, ret |-> cnt]
    ELSE LET rs1 == delete_value(rs, {q[it]})
             e   == erase_without_lock(rs1, dm, rs1[q[it]].key)
         IN erase_range_loop(e.recs, e.data_map, q, it + 1, high,
                             IF e.ret THEN cnt + 1 ELSE cnt)

\* erase_by_time_range under its lock, lines 97-107
erase_by_time_range_without_lock(rs, dm, q, start_time, end_time) ==
    LET pair == get_range(q, rs, start_time, end_time)
    IN erase_range_loop(rs, dm, q, pair[1], pair[2], 0)

\* The loop of lines 135-147 with the lambda of lines 122-133, from the i-th
\* visited position on.  Every is_expire() reads the clock, which may have
\* moved on since the previous read: all outcomes, each with the final time.
RECURSIVE erase_order_loop(_, _, _, _, _, _, _, _)
erase_order_loop(rs, dm, q, order, i, cnt, n, t) ==
    IF i > Len(order) THEN {[recs |-> rs, data_map |-> dm, ret |-> cnt, now |-> t]}
    ELSE UNION {
        LET id == q[order[i]] IN
        IF is_expire(rs[id], t1)
        THEN erase_order_loop(rs, dm, q, order, i + 1, cnt, n, t1)
        ELSE LET rs1  == delete_value(rs, {id})
                 e    == erase_without_lock(rs1, dm, rs1[id].key)
                 cnt1 == IF e.ret THEN cnt + 1 ELSE cnt
             IN IF cnt1 >= n
                THEN {[recs |-> e.recs, data_map |-> e.data_map, ret |-> cnt1, now |-> t1]}
                ELSE erase_order_loop(e.recs, e.data_map, q, order, i + 1, cnt1, n, t1)
        : t1 \in t..MaxTime }

\* erase_by_order under its lock, lines 121-149
erase_by_order_without_lock(rs, dm, q, n, asc, t) ==
    erase_order_loop(rs, dm, q, Visit(Len(q), asc), 1, 0, n, t)

\* The orders in which std::priority_queue can hand out the records of hp:
\* ascending expire_time (MinExpireCompare), equal keys in any order.
SortedOrders(hp, rs) ==
    {s \in [1..Cardinality(hp) -> hp] :
        /\ \A i, j \in DOMAIN s : i < j => s[i] # s[j]
        /\ \A i, j \in DOMAIN s : i < j => rs[s[i]].expire_time <= rs[s[j]].expire_time}

\* The orders in which std::unordered_map can be iterated
MapOrders(dm) ==
    {s \in [1..Cardinality(DOMAIN dm) -> DOMAIN dm] : \A i, j \in DOMAIN s : i < j => s[i] # s[j]}

\* tick, lines 340-348, popping in the given order: the records popped
RECURSIVE tick_loop(_, _, _, _)
tick_loop(order, i, rs, t) ==
    IF i > Len(order) THEN {}
    ELSE IF is_expire(rs[order[i]], t) THEN {order[i]} \cup tick_loop(order, i + 1, rs, t)
    ELSE {}

\* tick: the stores it can leave
tick(rs, hp, t) ==
    {LET popped == tick_loop(order, 1, rs, t)
     IN [recs |-> delete_value(rs, popped), heap |-> hp \ popped] : order \in SortedOrders(hp, rs)}

\* A loop that calls is_expire() on the records ids[i], ids[i+1], ... in turn,
\* the clock moving on between the calls: the sets of records found expired,
\* each with the time of the last call.
RECURSIVE judge(_, _, _, _, _)
judge(ids, i, rs, t, dead) ==
    IF i > Len(ids) THEN {[dead |-> dead, now |-> t]}
    ELSE UNION {judge(ids, i + 1, rs, t1,
                      IF is_expire(rs[ids[i]], t1) THEN dead \cup {ids[i]} ELSE dead)
                : t1 \in t..MaxTime}

\* tick_all doing no more than tick does (the heap trimmed from the top):
\* _queue and _data_map are never compacted.  C18 rests on the sweep's passes
\* over _queue and _data_map (lines 368-387).
tick_all_heap_top_only(rs, dm, hp, q, t) ==
    {[recs |-> r.recs, heap |-> r.heap, queue |-> q, data_map |-> dm, now |-> t]
        : r \in tick(rs, hp, t)}

\* tick_all without the pass over _data_map of lines 380-387: the map keeps
\* the records the queue pass dropped. C4 rests on that pass.
tick_all_without_map_pass(rs, dm, hp, q, t) ==
    UNION { UNION {
        {[recs |-> delete_value(delete_value(rs, h.dead), d.dead),
          heap |-> hp \ h.dead,
          queue |-> SelectSeq(q, LAMBDA id : id \notin d.dead),
          data_map |-> dm,
          now |-> d.now]}
        : d \in judge(q, 1, delete_value(rs, h.dead), h.now, {}) }
        : h \in UNION {judge(horder, 1, rs, t, {}) : horder \in SortedOrders(hp, rs)} }

\* tick_all, lines 357-390: the stores it can leave, each with the time at
\* which it ended
tick_all(rs, dm, hp, q, t) ==
    UNION { UNION { UNION { UNION {
        {LET rs3 == delete_value(delete_value(delete_value(rs, h.dead), d.dead), m.dead)
         IN [recs |-> rs3,
             heap |-> hp \ h.dead,
             queue |-> SelectSeq(q, LAMBDA id : id \notin d.dead),
             data_map |-> [k \in {x \in DOMAIN dm : dm[x] \notin m.dead} |-> dm[k]],
             now |-> m.now]}
        : m \in judge([i \in DOMAIN morder |-> dm[morder[i]]], 1,
                      delete_value(delete_value(rs, h.dead), d.dead), d.now, {}) }
        : morder \in MapOrders(dm) }
        : d \in judge(q, 1, delete_value(rs, h.dead), h.now, {}) }
        : h \in UNION {judge(horder, 1, rs, t, {}) : horder \in SortedOrders(hp, rs)} }


\* ------------------------------------------------------- caller operations
\* A critical section that runs from lock_guard to the end of the function
\* is one step: no other thread that takes the lock can see inside it.

\* insert, line 66: the record is created, and time-stamped, before the lock
insert_create(c, k, v, i) ==
    /\ CanCall(c)
    /\ CanAllocate
    /\ loc' = [loc EXCEPT ![c] = Frame(c, [op |-> "insert", map_value |-> KeyValue(k, v, i, now)])]
    /\ Goto(c, "insert_lock")
    /\ UNCHANGED <<now, store, _mutex, _is_running, rpc, count, opc>>
    /\ History

\* insert, line 68
insert_lock(c) ==
    /\ pc[c] = "insert_lock"
    /\ _mutex = 0
    /\ _mutex' = c
    /\ Goto(c, "insert_body")
    /\ UNCHANGED <<now, store, _is_running, loc, rpc, count, opc>>
    /\ History

\* insert, line 70, and the release of the lock
insert_body(c) ==
    /\ pc[c] = "insert_body"
    /\ LET r == insert_without_lock(recs, _data_map, _min_expire_heap, _queue,
                                    loc[c].map_value.key, loc[c].map_value) IN
         /\ recs' = r.recs
         /\ _data_map' = r.data_map
         /\ _min_expire_heap' = r.heap
         /\ _queue' = r.queue
    /\ loc' = [loc EXCEPT ![c] = IdleLoc]
    /\ _mutex' = 0
    /\ Goto(c, "idle")
    /\ UNCHANGED <<now, _is_running, rpc, count, opc>>
    /\ History

\* erase_by_key, lines 78-82
erase_by_key(c, k) ==
    /\ CanCall(c)
    /\ _mutex = 0
    /\ LET r == erase_without_lock(recs, _data_map, k) IN
         /\ recs' = r.recs
         /\ _data_map' = r.data_map
    /\ UNCHANGED <<now, _min_expire_heap, _queue, _mutex, _is_running, pc, loc, rpc, count, opc>>
    /\ History

\* erase_by_time_range, lines 90-108
erase_by_time_range(c, s, e) ==
    /\ CanCall(c)
    /\ s > e \/ _mutex = 0
    /\ LET r == IF s > e THEN [recs |-> recs, data_map |-> _data_map, ret |-> 0]
                ELSE erase_by_time_range_without_lock(recs, _data_map, _queue, s, e) IN
         /\ recs' = r.recs
         /\ _data_map' = r.data_map
    /\ UNCHANGED <<now, _min_expire_heap, _queue, _mutex, _is_running, pc, loc, rpc, count, opc>>
    /\ History

\* erase_by_order, lines 116-150
erase_by_order(c, n, asc) ==
    /\ CanCall(c)
    /\ _mutex = 0
    /\ \E r \in erase_by_order_without_lock(recs, _data_map, _queue, n, asc, now) :
         /\ recs' = r.recs
         /\ _data_map' = r.data_map
         /\ now' = r.now
    /\ UNCHANGED <<_min_expire_heap, _queue, _mutex, _is_running, pc, loc, rpc, count, opc>>
    /\ History

\* update_value, lines 159-182
update_value(c, k, v, i) ==
    /\ CanCall(c)
    /\ _mutex = 0
    /\ k \in DOMAIN _data_map => CanAllocate
    /\ LET r == update_value_without_lock(recs, _data_map, _min_expire_heap, _queue, k, v, i, now) IN
         /\ recs' = r.recs
         /\ _data_map' = r.data_map
         /\ _min_expire_heap' = r.heap
         /\ _queue' = r.queue
    /\ UNCHANGED <<now, _mutex, _is_running, pc, loc, rpc, count, opc>>
    /\ History

\* get_by_key, lines 190-203
get_by_key(c, k) ==
    /\ CanCall(c)
    /\ _mutex = 0
    /\ _data_map' = get_by_key_without_lock(recs, _data_map, k, now).data_map
    /\ UNCHANGED <<now, recs, _min_expire_heap, _queue, _mutex, _is_running, pc, loc, rpc, count, opc>>
    /\ History

\* get_by_order, lines 242-247: temp_queue = _queue under the lock, which is
\* then released
get_by_order_copy(c, n, asc) ==
    /\ CanCall(c)
    /\ _mutex = 0
    /\ loc' = [loc EXCEPT ![c] = Frame(c, [op |-> "get_by_order", n |-> n, asc |-> asc,
                                          temp_queue |-> _queue, idx |-> 1])]
    /\ Goto(c, IF Len(_queue) = 0 THEN "return" ELSE "get_by_order_scan")
    /\ UNCHANGED <<now, store, _mutex, _is_running, rpc, count, opc>>
    /\ History

\* One turn of the loop of lines 261-273 (the lambda of lines 250-259), run
\* without the lock: is_expire() reads the clock and the record's flag as
\* they are at this moment.
get_by_order_scan(c) ==
    /\ pc[c] = "get_by_order_scan"
    /\ LET f     == loc[c]
           order == Visit(Len(f.temp_queue), f.asc)
           id    == f.temp_queue[order[f.idx]]
           live  == ~is_expire(recs[id], now)
           cnt   == IF live THEN f.count + 1 ELSE f.count
           stop  == (live /\ cnt >= f.n) \/ f.idx = Len(f.temp_queue)
       IN /\ loc' = [loc EXCEPT ![c].result = IF live THEN Append(f.result, id) ELSE f.result,
                                ![c].count = cnt,
                                ![c].idx = f.idx + 1]
          /\ Goto(c, IF stop THEN "return" ELSE "get_by_order_scan")
    /\ UNCHANGED <<now, store, _mutex, _is_running, rpc, count, opc>>
    /\ History

\* get_by_time_range, lines 213-224: the copy under the lock, then get_range
\* on the copy.  asc is an argument the function never reads.
get_by_time_range_copy(c, s, e, asc) ==
    /\ CanCall(c)
    /\ s > e \/ _mutex = 0
    /\ LET pair == IF s > e THEN <<1, 1>> ELSE get_range(_queue, recs, s, e) IN
         /\ loc' = [loc EXCEPT ![c] = Frame(c, [op |-> "get_by_time_range", asc |-> asc,
                        start_time |-> s, end_time |-> e,
                        temp_queue |-> IF s > e THEN <<>> ELSE _queue,
                        idx |-> pair[1], high |-> pair[2]])]
         /\ Goto(c, IF pair[1] >= pair[2] THEN "return" ELSE "get_by_time_range_scan")
    /\ UNCHANGED <<now, store, _mutex, _is_running, rpc, count, opc>>
    /\ History

\* One turn of the loop of lines 226-230, run without the lock
get_by_time_range_scan(c) ==
    /\ pc[c] = "get_by_time_range_scan"
    /\ LET f    == loc[c]
           id   == f.temp_queue[f.idx]
           live == ~is_expire(recs[id], now)
       IN /\ loc' = [loc EXCEPT ![c].result = IF live THEN Append(f.result, id) ELSE f.result,
                                ![c].idx = f.idx + 1]
          /\ Goto(c, IF f.idx + 1 >= f.high THEN "return" ELSE "get_by_time_range_scan")
    /\ UNCHANGED <<now, store, _mutex, _is_running, rpc, count, opc>>
    /\ History

\* The query hands its result to the caller
Return(c) ==
    /\ pc[c] = "return"
    /\ Goto(c, "idle")
    /\ loc' = [loc EXCEPT ![c] = IdleLoc]
    /\ UNCHANGED <<now, store, _mutex, _is_running, rpc, count, opc>>
    /\ History

\* ------------------------------------------------------------- loop_tick
\* What a read of _is_running can give: the flag, or anything once the
\* destructor has returned and the object is gone
FlagRead == IF opc = "done" THEN BOOLEAN ELSE {_is_running}

\* line 398: while (_is_running)
loop_while ==
    /\ rpc = "while"
    /\ \E b \in FlagRead : rpc' = IF b THEN "log" ELSE "exited"
    /\ UNCHANGED <<now, store, _mutex, _is_running, pc, loc, count, opc>>
    /\ History

\* line 400: the sizes of the three structures are read without the lock
loop_log ==
    /\ rpc = "log"
    /\ rpc' = "sleep"
    /\ UNCHANGED <<now, store, _mutex, _is_running, pc, loc, count, opc>>
    /\ History

\* lines 403-407: after the sleep, the second test of the flag and the choice
\* between tick_all and tick
loop_wake ==
    /\ rpc = "sleep"
    /\ \E b \in FlagRead :
         rpc' = IF ~b THEN "exited"
                ELSE IF count = kCheckAllTimes THEN "tick_all" ELSE "tick"
    /\ UNCHANGED <<now, store, _mutex, _is_running, pc, loc, count, opc>>
    /\ History

\* lines 413-414: tick(); ++count
loop_tick ==
    /\ rpc = "tick"
    /\ _mutex = 0
    /\ \E r \in tick(recs, _min_expire_heap, now) :
         /\ recs' = r.recs
         /\ _min_expire_heap' = r.heap
    /\ count' = count + 1
    /\ rpc' = "while"
    /\ UNCHANGED <<now, _data_map, _queue, _mutex, _is_running, pc, loc, opc>>
    /\ History

\* lines 409-410: tick_all(); count = 0
loop_tick_all ==
    /\ rpc = "tick_all"
    /\ _mutex = 0
    /\ \E r \in tick_all(recs, _data_map, _min_expire_heap, _queue, now) :
         /\ recs' = r.recs
         /\ _data_map' = r.data_map
         /\ _min_expire_heap' = r.heap
         /\ _queue' = r.queue
         /\ now' = r.now
    /\ count' = 0
    /\ rpc' = "while"
    /\ UNCHANGED <<_mutex, _is_running, pc, loc, opc>>
    /\ History

\* --------------------------------------------------------------- ~SafeMap
\* line 42: _is_running = false
destroy_stop ==
    /\ opc = "alive"
    /\ \A c \in Callers : pc[c] = "idle"
    /\ _is_running' = FALSE
    /\ opc' = "swap"
    /\ UNCHANGED <<now, store, _mutex, pc, loc, rpc, count>>
    /\ History

\* lines 48-56: under the lock the three structures are swapped out; then the
\* thread is detached and the destructor returns
destroy_swap ==
    /\ opc = "swap"
    /\ _mutex = 0
    /\ _data_map' = <<>>
    /\ _min_expire_heap' = {}
    /\ _queue' = <<>>
    /\ opc' = "done"
    /\ UNCHANGED <<now, recs, _mutex, _is_running, pc, loc, rpc, count>>
    /\ History

\* ---------------------------------------------------------------- the clock
AdvanceClock ==
    /\ now < MaxTime
    /\ now' = now + 1
    /\ UNCHANGED <<store, _mutex, _is_running, pc, loc, rpc, count, opc>>
    /\ History

\* ------------------------------------------------------------ specification
Writers(c, vals) ==
    \/ \E k \in Keys, v \in vals, i \in ExpireIntervals : insert_create(c, k, v, i)
    \/ insert_lock(c)
    \/ insert_body(c)
    \/ \E k \in Keys : erase_by_key(c, k)
    \/ \E s \in Times, e \in Times : erase_by_time_range(c, s, e)
    \/ \E n \in 0..MaxN, asc \in BOOLEAN : erase_by_order(c, n, asc)
    \/ \E k \in Keys, v \in vals, i \in ExpireIntervals \cup {0} : update_value(c, k, v, i)
    \/ \E k \in Keys : get_by_key(c, k)

Readers(c) ==
    \/ \E n \in 0..MaxN, asc \in BOOLEAN : get_by_order_copy(c, n, asc)
    \/ get_by_order_scan(c)
    \/ \E s \in Times, e \in Times, asc \in BOOLEAN : get_by_time_range_copy(c, s, e, asc)
    \/ get_by_time_range_scan(c)
    \/ Return(c)

Reclaim == loop_while \/ loop_log \/ loop_wake \/ loop_tick \/ loop_tick_all

Destroy == destroy_stop \/ destroy_swap

\* The store with its writers, the reclaimer and the destructor
Next == (\E c \in Callers : Writers(c, Values)) \/ Reclaim \/ Destroy \/ AdvanceClock

Spec == Init /\ [][Next]_vars

\* The queries beside the writers of a live store
\* (one caller queries, the others write; a query never looks at a value, so
\* the writers here write a single one)
QueryCaller == CHOOSE c \in Callers : \A d \in Callers : c <= d
NextQuery ==
    \/ Readers(QueryCaller)
    \/ \E c \in Callers \ {QueryCaller} : Writers(c, {MaxValue})
    \/ AdvanceClock

SpecQuery == Init /\ [][NextQuery]_vars

\* The reclaimer beside one writing caller, with the reclaimer scheduled
\* fairly: its loop keeps taking steps (it only sleeps 5 ms between turns),
\* its lock_guard in tick / tick_all gets the mutex if the mutex keeps coming
\* free, and a caller inside insert's critical section leaves it.
NextReclaim ==
    \/ Writers(QueryCaller, {MaxValue})
    \/ Reclaim
    \/ Destroy
    \/ AdvanceClock

FairReclaim ==
    /\ WF_vars(loop_while \/ loop_log \/ loop_wake)
    /\ SF_vars(loop_tick)
    /\ SF_vars(loop_tick_all)
    /\ WF_vars(insert_body(QueryCaller))

SpecReclaim == Init /\ [][NextReclaim]_vars /\ FairReclaim

\* ------------------------------------------------------------------ claims
Last(q) == q[Len(q)]
InQueue(id) == \E i \in DOMAIN _queue : _queue[i] = id
\* past its expire_time: a TTL is set and now > expire_time
TimeExpired(r) == r.expire_time_interval # -1 /\ now > r.expire_time

\* C1: whenever the lock is free, no key of _data_map maps to a record whose
\* _is_delete flag is set.
C1_NoTombstoneInMap ==
    _mutex = 0 => \A k \in DOMAIN _data_map : ~recs[_data_map[k]].is_delete

\* C2: _queue is sorted in non-decreasing insert_time order in every state.
C2_QueueSorted ==
    \A i, j \in DOMAIN _queue :
        i < j => recs[_queue[i]].insert_time <= recs[_queue[j]].insert_time

\* C3: the list a get_by_order / get_by_time_range call returns is the list
\* the query gives when evaluated atomically on the store at one instant
\* between the call's invocation and its return.
C3_Linearizable ==
    \A c \in Callers : pc[c] = "return" => loc[c].result \in lin[c]

\* C4: whenever the lock is free, every record _data_map refers to is an
\* element of _queue.
C4_MapInQueue ==
    _mutex = 0 => \A k \in DOMAIN _data_map : InQueue(_data_map[k])

\* C4 witness: a full sweep has dropped a record from _queue while a key of
\* _data_map is still there, its record in _queue.
C4_Witness ==
    /\ opc = "alive" /\ _mutex = 0
    /\ DOMAIN _data_map # {}
    /\ \E id \in DOMAIN recs : ~InQueue(id)

\* C5: no thread reads or writes the three structures while another thread
\* holds the mutex and is changing them.
C5_NoUnlockedAccess ==
    ~(rpc = "log" /\ \E c \in Callers : _mutex = c /\ pc[c] = "insert_body")

\* C6: once ~SafeMap has returned, the reclaimer thread takes no further step
\* (each of its steps reads _is_running, the mutex or the structures).
C6_NoAccessAfterDestroy == [][opc = "done" => rpc' = rpc]_vars

\* C7: the loop leaves only when the flag is cleared, and after the flag is
\* cleared it begins at most one more tick or tick_all.
C7_AtMostOneTickAfterStop ==
    /\ rpc = "exited" => ~_is_running
    /\ stop_ticks <= 1

\* C8: insert returns false and leaves the three structures unchanged exactly
\* when the key is in _data_map as the call holds the lock (live record or
\* not); otherwise it returns true and one new record, not tombstoned, is the
\* key's entry in _data_map, the last element of _queue and in the heap.
C8_InsertContract ==
    [][\A c \in Callers :
        (pc[c] = "insert_body" /\ pc'[c] = "idle") =>
            LET mv == loc[c].map_value
                k  == mv.key
                r  == insert_without_lock(recs, _data_map, _min_expire_heap, _queue, k, mv)
            IN IF k \in DOMAIN _data_map
               THEN r.ret = FALSE /\ UNCHANGED store
               ELSE /\ r.ret = TRUE
                    /\ k \in DOMAIN _data_map'
                    /\ LET id == _data_map'[k] IN
                         /\ id \notin DOMAIN recs
                         /\ DOMAIN recs' = DOMAIN recs \cup {id}
                         /\ recs'[id] = mv /\ ~recs'[id].is_delete
                         /\ \A j \in DOMAIN recs : recs'[j] = recs[j]
                         /\ _queue' = Append(_queue, id)
                         /\ _min_expire_heap' = _min_expire_heap \cup {id}
                         /\ \A x \in DOMAIN _data_map : _data_map'[x] = _data_map[x]
                         /\ DOMAIN _data_map' = DOMAIN _data_map \cup {k}]_vars

\* C8 witness: an insert of key k has taken effect (its record is the entry of
\* k, the tail of _queue and in the heap) and that record is no longer live,
\* while another insert of k holds the lock and is about to be refused.
C8_Witness ==
    \E c \in Callers, k \in DOMAIN _data_map :
        /\ pc[c] = "insert_body" /\ loc[c].map_value.key = k
        /\ Last(_queue) = _data_map[k]
        /\ _data_map[k] \in _min_expire_heap
        /\ TimeExpired(recs[_data_map[k]])

\* C9: update_value(key, value, 0) on a key of _data_map returns true,
\* tombstones the old record and leaves the key on a new record with the given
\* value, insert_time = the time of the update and expire_time = that time
\* plus the old record's interval (never-expiring stays never-expiring); on a
\* key that is not in _data_map it returns false and changes nothing.
C9_Absent ==
    \A k \in Keys \ DOMAIN _data_map, v \in Values :
        LET r == update_value_without_lock(recs, _data_map, _min_expire_heap, _queue, k, v, 0, now)
        IN r.ret = FALSE /\ r.recs = recs /\ r.data_map = _data_map
           /\ r.heap = _min_expire_heap /\ r.queue = _queue

C9_Step ==
    \A c \in Callers, k \in DOMAIN _data_map, v \in Values :
        update_value(c, k, v, 0) =>
            LET old == _data_map[k]
                new == _data_map'[k]
                r   == update_value_without_lock(recs, _data_map, _min_expire_heap, _queue, k, v, 0, now)
            IN /\ r.ret = TRUE
               /\ recs'[old].is_delete
               /\ k \in DOMAIN _data_map'
               /\ new \notin DOMAIN recs
               /\ ~recs'[new].is_delete
               /\ recs'[new].key = k
               /\ recs'[new].value = v
               /\ recs'[new].insert_time = now
               /\ recs'[new].expire_time_interval = recs[old].expire_time_interval
               /\ recs'[new].expire_time = now + recs[old].expire_time_interval
               /\ recs[old].expire_time_interval = -1 => \A t \in Times : ~is_expire(recs'[new], t)

C9_UpdateKeepExisting == [][C9_Step]_vars /\ []C9_Absent

\* C9 witness: a record with a TTL was replaced by an update later than its
\* insertion: the old record is tombstoned in _queue, the key's new record has
\* the same interval and a later deadline.
C9_Witness ==
    \E k \in DOMAIN _data_map, i \in DOMAIN _queue :
        LET old == recs[_queue[i]]
            new == recs[_data_map[k]]
        IN /\ _queue[i] # _data_map[k]
           /\ old.key = k /\ old.is_delete
           /\ old.expire_time_interval = 1 /\ new.expire_time_interval = 1
           /\ new.insert_time > old.insert_time
           /\ new.expire_time > old.expire_time

\* C10: get_by_key of a key whose record is past its expire_time returns
\* false and leaves the key out of _data_map with the record's _is_delete
\* set; on a key with a live record it returns the value and changes nothing.
C10_GetByKeyExpired ==
    [][\A c \in Callers, k \in DOMAIN _data_map :
        get_by_key(c, k) =>
            LET id == _data_map[k]
                r  == get_by_key_without_lock(recs, _data_map, k, now)
            IN IF TimeExpired(recs[id])
               THEN r.ret = FALSE /\ k \notin DOMAIN _data_map' /\ recs'[id].is_delete
               ELSE IF ~recs[id].is_delete
               THEN r.ret = TRUE /\ r.value = recs[id].value /\ UNCHANGED store
               ELSE TRUE]_vars

\* C11: erase_by_time_range(start, end) with start <= end removes from
\* _data_map exactly the keys whose current record has its insert_time in
\* [start, end] and returns their number; every other key keeps its record,
\* untouched.
C11_EraseByTimeRange ==
    [][\A c \in Callers, s \in Times, e \in Times :
        (s <= e /\ erase_by_time_range(c, s, e)) =>
            LET InRange(k) == /\ recs[_data_map[k]].insert_time >= s
                              /\ recs[_data_map[k]].insert_time <= e
                r == erase_by_time_range_without_lock(recs, _data_map, _queue, s, e)
            IN /\ DOMAIN _data_map' = {k \in DOMAIN _data_map : ~InRange(k)}
               /\ r.ret = Cardinality({k \in DOMAIN _data_map : InRange(k)})
               /\ \A k \in DOMAIN _data_map :
                     ~InRange(k) => /\ k \in DOMAIN _data_map'
                                    /\ _data_map'[k] = _data_map[k]
                                    /\ recs'[_data_map[k]] = recs[_data_map[k]]]_vars

\* C12: erase_by_order(n, asc) returns a count that is at most n and is the
\* number of records that were live before the call and that the call
\* tombstoned and removed from _data_map.
C12_EraseByOrderCount ==
    [][\A c \in Callers, n \in 0..MaxN, asc \in BOOLEAN :
        erase_by_order(c, n, asc) =>
            \A r \in erase_by_order_without_lock(recs, _data_map, _queue, n, asc, now) :
                (recs' = r.recs /\ _data_map' = r.data_map /\ now' = r.now) =>
                    /\ r.ret <= n
                    /\ r.ret = Cardinality({id \in DOMAIN recs :
                                  /\ ~is_expire(recs[id], now)
                                  /\ recs'[id].is_delete
                                  /\ \E k \in DOMAIN _data_map : _data_map[k] = id
                                  /\ ~\E k \in DOMAIN _data_map' : _data_map'[k] = id})]_vars

\* The records of queue q that are live now, in the order the walk from the
\* front (asc) or from the back meets them
LiveWalk(q, asc) ==
    SelectSeq([i \in 1..Len(q) |-> q[Visit(Len(q), asc)[i]]],
              LAMBDA id : ~is_expire(recs[id], now))

FirstN(s, n) == SubSeq(s, 1, IF n < Len(s) THEN n ELSE Len(s))

\* C13: with nothing running beside it, get_by_order(n, asc) returns the first
\* min(n, number of live records) live records of _queue in walk order.
C13_GetByOrderFirstN ==
    \A c \in Callers :
        (pc[c] = "return" /\ loc[c].op = "get_by_order" /\ quiet[c]) =>
            loc[c].result = FirstN(LiveWalk(_queue, loc[c].asc), loc[c].n)

\* C14: with _queue sorted by insert_time and nothing running beside it,
\* get_by_time_range(start, end) with start <= end returns the live records
\* of _queue with start <= insert_time <= end, each once, and the empty list
\* when start > end; the steps of the call change no structure and no flag.
C14_Result ==
    \A c \in Callers :
        (/\ pc[c] = "return" /\ loc[c].op = "get_by_time_range" /\ quiet[c]
         /\ \A i \in 1..(Len(_queue) - 1) :
               recs[_queue[i]].insert_time <= recs[_queue[i + 1]].insert_time) =>
            loc[c].result =
                IF loc[c].start_time > loc[c].end_time THEN <<>>
                ELSE SelectSeq(_queue, LAMBDA id :
                        /\ ~is_expire(recs[id], now)
                        /\ loc[c].start_time <= recs[id].insert_time
                        /\ recs[id].insert_time <= loc[c].end_time)

C14_Frame ==
    \A c \in Callers :
        ((loc[c].op = "get_by_time_range" \/ loc'[c].op = "get_by_time_range")
            /\ loc'[c] # loc[c]) => UNCHANGED store

C14_GetByTimeRange == []C14_Result /\ [][C14_Frame]_vars

\* C14 witness: a query has returned exactly the record whose insert_time is
\* both bounds of its range, leaving out a live record of another time.
C14_Witness ==
    \E c \in Callers :
        /\ pc[c] = "return" /\ loc[c].op = "get_by_time_range" /\ quiet[c]
        /\ Len(loc[c].result) = 1
        /\ recs[loc[c].result[1]].insert_time = loc[c].end_time
        /\ loc[c].start_time = loc[c].end_time
        /\ \E i \in DOMAIN _queue :
              /\ ~is_expire(recs[_queue[i]], now)
              /\ recs[_queue[i]].insert_time # loc[c].end_time

\* C15: get_by_time_range(start, end, asc) returns its records in
\* non-decreasing insert_time order when asc is true and in non-increasing
\* order when asc is false.
C15_RangeDirection ==
    \A c \in Callers :
        (pc[c] = "return" /\ loc[c].op = "get_by_time_range") =>
            \A i, j \in DOMAIN loc[c].result :
                i < j => IF loc[c].asc
                         THEN recs[loc[c].result[i]].insert_time <= recs[loc[c].result[j]].insert_time
                         ELSE recs[loc[c].result[i]].insert_time >= recs[loc[c].result[j]].insert_time

Elems(q) == {q[i] : i \in DOMAIN q}

\* C16: erase_by_key, erase_by_time_range, erase_by_order, update_value and
\* get_by_key remove nothing from _queue or _min_expire_heap (the first four
\* leave both as they are, update_value does no more than append one new
\* record to each); a record leaves _queue or the heap only in a step of
\* tick / tick_all or in the destructor.
C16_Step ==
    /\ (\/ ~(Elems(_queue) \subseteq Elems(_queue'))
        \/ ~(_min_expire_heap \subseteq _min_expire_heap'))
         => \/ rpc \in {"tick", "tick_all"} /\ rpc' = "while"
            \/ opc = "swap" /\ opc' = "done"
    /\ (_queue' # _queue \/ _min_expire_heap' # _min_expire_heap) =>
         \A c \in Callers :
            /\ \A k \in Keys : ~erase_by_key(c, k) /\ ~get_by_key(c, k)
            /\ \A s \in Times, e \in Times : ~erase_by_time_range(c, s, e)
            /\ \A n \in 0..MaxN, asc \in BOOLEAN : ~erase_by_order(c, n, asc)
            /\ \A k \in Keys, v \in Values, i \in ExpireIntervals \cup {0} :
                  update_value(c, k, v, i) =>
                      /\ k \in DOMAIN _data_map'
                      /\ _data_map'[k] \notin DOMAIN recs
                      /\ _queue' = Append(_queue, _data_map'[k])
                      /\ _min_expire_heap' = _min_expire_heap \cup {_data_map'[k]}

C16_LazyRemoval == [][C16_Step]_vars

\* C16 witness: a key was updated and then erased: both of its records are
\* tombstoned and out of _data_map, and both are still in _queue and the heap.
C16_Witness ==
    /\ _mutex = 0 /\ opc = "alive"
    /\ \E a, b \in DOMAIN recs :
          /\ a # b /\ recs[a].key = recs[b].key
          /\ recs[a].is_delete /\ recs[b].is_delete
          /\ {a, b} \subseteq Elems(_queue) /\ {a, b} \subseteq _min_expire_heap
          /\ recs[a].key \notin DOMAIN _data_map

MapRecords(dm) == {dm[k] : k \in DOMAIN dm}

\* C17: right after tick_all, every record in _data_map, _queue and the heap
\* is live (not tombstoned, not past its expire_time), the three hold the
\* same set of records, and every record the sweep dropped is tombstoned.
C17_AfterFullSweep ==
    [][(rpc = "tick_all" /\ rpc' = "while") =>
        /\ MapRecords(_data_map') = Elems(_queue')
        /\ Elems(_queue') = _min_expire_heap'
        /\ \A id \in _min_expire_heap' :
              ~recs'[id].is_delete /\ ~is_expire(recs'[id], now')
        /\ \A id \in (MapRecords(_data_map) \cup Elems(_queue) \cup _min_expire_heap)
                        \ _min_expire_heap' : recs'[id].is_delete]_vars

\* C19: right after tick, _min_expire_heap holds no record whose TTL has
\* elapsed (a TTL is set and now > expire_time).
C19_AfterTick ==
    [][(rpc = "tick" /\ rpc' = "while") =>
        \A id \in _min_expire_heap' :
            ~(recs'[id].expire_time_interval # -1 /\ now' > recs'[id].expire_time)]_vars

Live(id) == ~is_expire(recs[id], now)

\* C20: whenever the lock is free, _queue holds at most one live record per
\* key and every live record of _queue is the record _data_map maps its key
\* to; and a record that is not live never becomes live again, so a record
\* taken out of _data_map is not returned by a later query.
C20_State ==
    _mutex = 0 =>
        \A i \in DOMAIN _queue :
            Live(_queue[i]) =>
                /\ recs[_queue[i]].key \in DOMAIN _data_map
                /\ _data_map[recs[_queue[i]].key] = _queue[i]
                /\ \A j \in DOMAIN _queue :
                      (Live(_queue[j]) /\ recs[_queue[j]].key = recs[_queue[i]].key) => j = i

C20_Step ==
    \A id \in DOMAIN recs : ~Live(id) => is_expire(recs'[id], now')

C20_OneLivePerKey == []C20_State /\ [][C20_Step]_vars

\* C20 witness: a key's record was replaced: _queue holds a dead record and a
\* live record of the same key, and the live one is the key's entry.
C20_Witness ==
    /\ _mutex = 0
    /\ \E i, j \in DOMAIN _queue :
          /\ i < j /\ recs[_queue[i]].key = recs[_queue[j]].key
          /\ ~Live(_queue[i]) /\ Live(_queue[j])
          /\ _data_map[recs[_queue[j]].key] = _queue[j]
          /\ now > recs[_queue[j]].insert_time

Held(id) == id \in MapRecords(_data_map) \cup Elems(_queue) \cup _min_expire_heap

\* C18: while the store is not shut down and the reclaimer is scheduled
\* fairly, a record that is no longer live (tombstoned or past its
\* expire_time) is eventually in none of _data_map, _queue and the heap,
\* whether or not a caller calls again.
C18_Convergence ==
    \A id \in 1..MaxRecs :
        (id \in DOMAIN recs /\ ~Live(id) /\ Held(id)) ~> (~Held(id) \/ opc # "alive")

\* C18 witness: with the store alive and no caller inside a call, a record
\* that ran past its expire_time untouched by any caller has been tombstoned
\* and is in none of the three structures.
C18_Witness ==
    /\ opc = "alive" /\ _mutex = 0
    /\ \A c \in Callers : pc[c] = "idle"
    /\ \E id \in DOMAIN recs :
          /\ ~Held(id) /\ recs[id].is_delete
          /\ recs[id].expire_time_interval # -1 /\ now > recs[id].expire_time

=============================================================================
